---- MODULE Spec2Model ----
(***************************************************************************)
(* State machine of the VideoConverter React component                     *)
(* (src/unnamed/part_000).  The variables are the component's useState     *)
(* cells and refs, the async invocations of loadFFmpeg / convertVideo that *)
(* are suspended at an await, and the browser's table of object URLs.      *)
(* Every action is one event handler, or the continuation of an async      *)
(* function from one await to the next.  A handler can only be run through *)
(* the element that carries it, so its guard is the JSX condition under    *)
(* which that element is rendered and enabled, followed by the handler's   *)
(* own early return.                                                       *)
(***************************************************************************)
EXTENDS Integers, Sequences, FiniteSets, TLC

VARIABLES
    file,            \* useState<File | null>            (line 18)
    outputFormat,    \* useState("mp4")                  (line 19)
    isLoading,       \* useState(false)                  (line 20)
    isFFmpegLoaded,  \* useState(false)                  (line 21)
    progress,        \* useState(0)                      (line 22)
    convertedFile,   \* useState<ConvertedFile | null>   (line 23)
    error,           \* useState("")                     (line 26)
    logs,            \* useState<string[]>([])           (line 27)
    ffmpegRef,       \* useRef<any>(null): the engine instance (line 28)
    loads,           \* invocations of loadFFmpeg suspended at an await
    jobs,            \* invocations of convertVideo suspended at an await
    objectURLs,      \* URLs made by URL.createObjectURL and not revoked
    loadsDone,       \* number of engine initializations that succeeded
    convertCalls     \* number of convertVideo invocations so far

vars == <<file, outputFormat, isLoading, isFFmpegLoaded, progress,
          convertedFile, error, logs, ffmpegRef, loads, jobs, objectURLs,
          loadsDone, convertCalls>>

(***************************************************************************)
(* Bounds of the model.                                                    *)
(***************************************************************************)
MaxLoads == 6        \* loadFFmpeg invocations per session
MaxConverts == 2     \* convertVideo invocations per session
MaxEngineLogs == 1   \* "log" events the engine emits during one exec
MaxLiveConverts == 1 \* convertVideo invocations per session under FairSpec

(***************************************************************************)
(* Inputs.                                                                 *)
(***************************************************************************)
\* null, as a value that can be compared with the objects it stands in for.
Null == [null |-> TRUE]

\* new FFmpeg(): the engine instance held by ffmpegRef.current.
FFmpeg == [engine |-> "FFmpeg"]

\* A file name is held as the result of name.split("."): its segments.
FileNames == { <<"clip", "mov">>, <<"my", "video", "mp4">> }
Files == [name : FileNames]

\* The <option> values of the format selector.
Formats == {"mp4", "webm", "avi", "mov", "mkv"}

\* Messages of the exceptions the engine (or a dynamic import) may throw.
ErrorMessages == {"boom"}

\* Messages of the engine's "log" events.
EngineMessages == {"frame"}

\* Ratios of the engine's "progress" events, in thousandths.  The engine is
\* taken at its contract: a ratio within [0, 1] that does not decrease
\* during one exec.
Ratios == {255, 1000}

(***************************************************************************)
(* Helpers.                                                                *)
(***************************************************************************)
RemoveAt(s, i) == SubSeq(s, 1, i - 1) \o SubSeq(s, i + 1, Len(s))

\* prev.slice(-n): the last n elements.
SliceLast(s, n) == IF Len(s) <= n THEN s ELSE SubSeq(s, Len(s) - n + 1, Len(s))

\* Math.round(ratio * 100) for a ratio given in thousandths: floor(x + 0.5).
RoundPercent(permille) == (permille + 5) \div 10

Init ==
    /\ file = Null
    /\ outputFormat = "mp4"
    /\ isLoading = FALSE
    /\ isFFmpegLoaded = FALSE
    /\ progress = 0
    /\ convertedFile = Null
    /\ error = ""
    /\ logs = <<>>
    /\ ffmpegRef = Null
    /\ loads = <<>>
    /\ jobs = <<>>
    /\ objectURLs = {}
    /\ loadsDone = 0
    /\ convertCalls = 0

(***************************************************************************)
(* loadFFmpeg                                                              *)
(***************************************************************************)
\* The loadFFmpeg invocations made so far while the engine is not loaded:
\* each appended its line to the log, which nothing clears before the engine
\* is loaded.
LoadAttempts == Cardinality({k \in 1..Len(logs) : logs[k] = "Loading FFmpeg..."})

\* Variant: the Initialize button without disabled={isLoading}.
InitializeButtonNeverDisabled == ~isFFmpegLoaded

\* The Initialize button is rendered while the engine is not loaded and is
\* disabled while isLoading.
InitializeButtonEnabled == ~isFFmpegLoaded /\ ~isLoading

\* Click on Initialize: loadFFmpeg up to its first await.
loadFFmpeg ==
    /\ InitializeButtonEnabled
    /\ LoadAttempts < MaxLoads
    /\ ~isFFmpegLoaded
    /\ isLoading' = TRUE
    /\ logs' = Append(logs, "Loading FFmpeg...")
    /\ loads' = Append(loads, [pc |-> "import"])
    /\ UNCHANGED <<file, outputFormat, isFFmpegLoaded, progress, convertedFile,
                   error, ffmpegRef, jobs, objectURLs, loadsDone, convertCalls>>

\* The dynamic imports resolve: a new FFmpeg is built, its handlers are
\* registered and ffmpeg.load() is awaited.
loadFFmpegImported(i) ==
    /\ i \in 1..Len(loads)
    /\ loads[i].pc = "import"
    /\ ffmpegRef' = FFmpeg
    /\ loads' = [loads EXCEPT ![i].pc = "load"]
    /\ UNCHANGED <<file, outputFormat, isLoading, isFFmpegLoaded, progress,
                   convertedFile, error, logs, jobs, objectURLs,
                   loadsDone, convertCalls>>

\* ffmpeg.load() resolves.
loadFFmpegResolved(i) ==
    /\ i \in 1..Len(loads)
    /\ loads[i].pc = "load"
    /\ isFFmpegLoaded' = TRUE
    /\ logs' = Append(logs, "FFmpeg loaded successfully!")
    /\ isLoading' = FALSE
    /\ loads' = RemoveAt(loads, i)
    /\ loadsDone' = loadsDone + 1
    /\ UNCHANGED <<file, outputFormat, progress, convertedFile, error, ffmpegRef,
                   jobs, objectURLs, convertCalls>>

\* Variant: setIsFFmpegLoaded(true) placed in the finally block.
loadFFmpegRejectedMarksLoaded(i, errorMsg) ==
    /\ i \in 1..Len(loads)
    /\ error' = "Failed to load FFmpeg: " \o errorMsg
    /\ logs' = Append(logs, "Error loading FFmpeg: " \o errorMsg)
    /\ isFFmpegLoaded' = TRUE
    /\ isLoading' = FALSE
    /\ loads' = RemoveAt(loads, i)
    /\ UNCHANGED <<file, outputFormat, progress, convertedFile, ffmpegRef, jobs,
                   objectURLs, loadsDone, convertCalls>>

\* An import or ffmpeg.load() rejects: catch, then finally.
loadFFmpegRejected(i, errorMsg) ==
    /\ i \in 1..Len(loads)
    /\ error' = "Failed to load FFmpeg: " \o errorMsg
    /\ logs' = Append(logs, "Error loading FFmpeg: " \o errorMsg)
    /\ isLoading' = FALSE
    /\ loads' = RemoveAt(loads, i)
    /\ UNCHANGED <<file, outputFormat, isFFmpegLoaded, progress, convertedFile,
                   ffmpegRef, jobs, objectURLs, loadsDone,
                   convertCalls>>

(***************************************************************************)
(* handleFileSelect, the format selector, resetConverter                   *)
(***************************************************************************)
\* The file input is rendered once the engine is loaded.
FileInputRendered == isFFmpegLoaded

\* Variant: handleFileSelect without setConvertedFile(null).
handleFileSelectKeepsArtifact(selectedFile) ==
    /\ FileInputRendered
    /\ IF selectedFile # Null
       THEN /\ file' = selectedFile
            /\ error' = ""
            /\ progress' = 0
            /\ logs' = <<>>
       ELSE UNCHANGED <<file, error, progress, logs>>
    /\ UNCHANGED <<outputFormat, isLoading, isFFmpegLoaded, convertedFile,
                   ffmpegRef, loads, jobs, objectURLs, loadsDone,
                   convertCalls>>

\* onChange of the file input; selectedFile is event.target.files?.[0].
handleFileSelect(selectedFile) ==
    /\ FileInputRendered
    /\ IF selectedFile # Null
       THEN /\ file' = selectedFile
            /\ convertedFile' = Null
            /\ error' = ""
            /\ progress' = 0
            /\ logs' = <<>>
       ELSE UNCHANGED <<file, convertedFile, error, progress, logs>>
    /\ UNCHANGED <<outputFormat, isLoading, isFFmpegLoaded, ffmpegRef, loads,
                   jobs, objectURLs, loadsDone, convertCalls>>

\* onChange of the format <select>, rendered while a file is selected.
setOutputFormat(value) ==
    /\ file # Null
    /\ outputFormat' = value
    /\ UNCHANGED <<file, isLoading, isFFmpegLoaded, progress, convertedFile,
                   error, logs, ffmpegRef, loads, jobs, objectURLs,
                   loadsDone, convertCalls>>

\* Variant: resetConverter without setLogs([]).
resetConverterKeepsLogs ==
    /\ file # Null
    /\ file' = Null
    /\ convertedFile' = Null
    /\ error' = ""
    /\ progress' = 0
    /\ UNCHANGED <<outputFormat, isLoading, isFFmpegLoaded, logs, ffmpegRef,
                   loads, jobs, objectURLs, loadsDone, convertCalls>>

\* Click on the reset button, rendered while a file is selected.
resetConverter ==
    /\ file # Null
    /\ file' = Null
    /\ convertedFile' = Null
    /\ error' = ""
    /\ progress' = 0
    /\ logs' = <<>>
    /\ UNCHANGED <<outputFormat, isLoading, isFFmpegLoaded, ffmpegRef, loads,
                   jobs, objectURLs, loadsDone, convertCalls>>

(***************************************************************************)
(* convertVideo                                                            *)
(***************************************************************************)
\* Variant: the Convert button without disabled={isLoading}.
ConvertButtonNeverDisabled == file # Null /\ isFFmpegLoaded

\* The Convert button is rendered while a file is selected and the engine is
\* loaded, and is disabled while isLoading.
ConvertButtonEnabled == file # Null /\ isFFmpegLoaded /\ ~isLoading

\* Click on Convert: convertVideo up to its first await.  The invocation
\* keeps the file and outputFormat of the render it was created in.
convertVideo ==
    /\ ConvertButtonEnabled
    /\ convertCalls < MaxConverts
    /\ ~(file = Null \/ ~isFFmpegLoaded)
    /\ isLoading' = TRUE
    /\ error' = ""
    /\ progress' = 0
    /\ logs' = Append(logs, "Starting conversion to " \o outputFormat \o "...")
    /\ jobs' = Append(jobs, [pc |-> "write", file |-> file,
                             outputFormat |-> outputFormat,
                             command |-> <<>>, nlogs |-> 0,
                             ratio |-> 0])
    /\ convertCalls' = convertCalls + 1
    /\ UNCHANGED <<file, outputFormat, isFFmpegLoaded, convertedFile, ffmpegRef,
                   loads, objectURLs, loadsDone>>

\* const inputName = `input.${file.name.split(".").pop()}`
InputName(f) == "input." \o f.name[Len(f.name)]

\* const outputName = `output.${outputFormat}`
OutputName(format) == "output." \o format

\* The tokens pushed by the switch on outputFormat.
FormatFlags(format) ==
    CASE format = "mp4"  -> <<"-c:v", "libx264", "-c:a", "aac", "-preset", "medium">>
      [] format = "webm" -> <<"-c:v", "libvpx-vp9", "-c:a", "libopus">>
      [] format = "avi"  -> <<"-c:v", "libx264", "-c:a", "mp3">>
      [] format = "mov"  -> <<"-c:v", "libx264", "-c:a", "aac">>
      [] format = "mkv"  -> <<"-c:v", "libx264", "-c:a", "aac">>
      [] OTHER           -> <<"-c:v", "libx264", "-c:a", "aac">>

\* The array handed to ffmpeg.exec: the literal, the switch's push, the
\* final push of outputName.
Command(f, format) ==
    <<"-i", InputName(f), "-c:v", "libx264", "-c:a", "aac", "-preset", "medium",
      OutputName(format)>>
    \o FormatFlags(format)
    \o <<OutputName(format)>>

\* name: `${file.name.split(".")[0]} .  ${outputFormat}`
ConvertedName(f, format) == f.name[1] \o " .  " \o format

\* new Blob([data.buffer], { type: `video/${outputFormat}` }); data is what
\* the engine produced from the job's input under the job's output name.
OutputBlob(f, format) ==
    [type |-> "video/" \o format, data |-> [from |-> f, format |-> format]]

\* URL.createObjectURL: a URL no earlier call returned.
NewObjectURL == Cardinality(objectURLs) + 1

\* Variant: ffmpeg.exec(command) called without await, so that
\* ffmpeg.readFile is invoked while exec is still running.
convertVideoWrittenExecNotAwaited(j) ==
    /\ j \in 1..Len(jobs)
    /\ jobs[j].pc = "write"
    /\ jobs' = [jobs EXCEPT ![j].pc = "read",
                            ![j].command = Command(jobs[j].file, jobs[j].outputFormat)]
    /\ UNCHANGED <<file, outputFormat, isLoading, isFFmpegLoaded, progress,
                   convertedFile, error, logs, ffmpegRef, loads, objectURLs,
                   loadsDone, convertCalls>>

\* fetchFile and ffmpeg.writeFile resolve: the command is built and
\* ffmpeg.exec(command) is awaited.
convertVideoWritten(j) ==
    /\ j \in 1..Len(jobs)
    /\ jobs[j].pc = "write"
    /\ jobs' = [jobs EXCEPT ![j].pc = "exec",
                            ![j].command = Command(jobs[j].file, jobs[j].outputFormat)]
    /\ UNCHANGED <<file, outputFormat, isLoading, isFFmpegLoaded, progress,
                   convertedFile, error, logs, ffmpegRef, loads, objectURLs,
                   loadsDone, convertCalls>>

\* ffmpeg.exec resolves: ffmpeg.readFile(outputName) is awaited.
convertVideoExecuted(j) ==
    /\ j \in 1..Len(jobs)
    /\ jobs[j].pc = "exec"
    /\ jobs' = [jobs EXCEPT ![j].pc = "read"]
    /\ UNCHANGED <<file, outputFormat, isLoading, isFFmpegLoaded, progress,
                   convertedFile, error, logs, ffmpegRef, loads, objectURLs,
                   loadsDone, convertCalls>>

\* Variant: convertVideo without its finally block.
convertVideoReadNoFinally(j) ==
    /\ j \in 1..Len(jobs)
    /\ jobs[j].pc = "read"
    /\ convertedFile' = [blob |-> OutputBlob(jobs[j].file, jobs[j].outputFormat),
                         name |-> ConvertedName(jobs[j].file, jobs[j].outputFormat),
                         url  |-> NewObjectURL]
    /\ objectURLs' = objectURLs \cup {NewObjectURL}
    /\ logs' = Append(logs, "Conversion completed successfully!")
    /\ jobs' = RemoveAt(jobs, j)
    /\ UNCHANGED <<file, outputFormat, isLoading, isFFmpegLoaded, progress,
                   error, ffmpegRef, loads, loadsDone, convertCalls>>

\* ffmpeg.readFile resolves: the artifact is published, then finally.
convertVideoRead(j) ==
    /\ j \in 1..Len(jobs)
    /\ jobs[j].pc = "read"
    /\ convertedFile' = [blob |-> OutputBlob(jobs[j].file, jobs[j].outputFormat),
                         name |-> ConvertedName(jobs[j].file, jobs[j].outputFormat),
                         url  |-> NewObjectURL]
    /\ objectURLs' = objectURLs \cup {NewObjectURL}
    /\ logs' = Append(logs, "Conversion completed successfully!")
    /\ isLoading' = FALSE
    /\ progress' = 0
    /\ jobs' = RemoveAt(jobs, j)
    /\ UNCHANGED <<file, outputFormat, isFFmpegLoaded, error, ffmpegRef, loads,
                   loadsDone, convertCalls>>

\* Variant: the catch block also tears the engine down.
convertVideoRejectedTearsDown(j, errorMsg) ==
    /\ j \in 1..Len(jobs)
    /\ error' = "Failed to load FFmpeg: " \o errorMsg
    /\ logs' = Append(logs, "Error loading FFmpeg: " \o errorMsg)
    /\ isFFmpegLoaded' = FALSE
    /\ isLoading' = FALSE
    /\ progress' = 0
    /\ jobs' = RemoveAt(jobs, j)
    /\ UNCHANGED <<file, outputFormat, convertedFile, ffmpegRef, loads,
                   objectURLs, loadsDone, convertCalls>>

\* An awaited call of the job rejects: catch, then finally.
convertVideoRejected(j, errorMsg) ==
    /\ j \in 1..Len(jobs)
    /\ error' = "Failed to load FFmpeg: " \o errorMsg
    /\ logs' = Append(logs, "Error loading FFmpeg: " \o errorMsg)
    /\ isLoading' = FALSE
    /\ progress' = 0
    /\ jobs' = RemoveAt(jobs, j)
    /\ UNCHANGED <<file, outputFormat, isFFmpegLoaded, convertedFile, ffmpegRef,
                   loads, objectURLs, loadsDone, convertCalls>>

(***************************************************************************)
(* The handlers registered on the engine                                   *)
(***************************************************************************)
\* "log" event of the engine while it executes a command.
onLog(j, message) ==
    /\ j \in 1..Len(jobs)
    /\ jobs[j].pc = "exec"
    /\ jobs[j].nlogs < MaxEngineLogs
    /\ logs' = Append(SliceLast(logs, 10), message)
    /\ jobs' = [jobs EXCEPT ![j].nlogs = @ + 1]
    /\ UNCHANGED <<file, outputFormat, isLoading, isFFmpegLoaded, progress,
                   convertedFile, error, ffmpegRef, loads, objectURLs,
                   loadsDone, convertCalls>>

\* "progress" event of the engine while it executes a command; the job
\* keeps the last ratio its exec reported.
onProgress(j, ratio) ==
    /\ j \in 1..Len(jobs)
    /\ jobs[j].pc = "exec"
    /\ ratio >= jobs[j].ratio
    /\ progress' = RoundPercent(ratio)
    /\ jobs' = [jobs EXCEPT ![j].ratio = ratio]
    /\ UNCHANGED <<file, outputFormat, isLoading, isFFmpegLoaded, convertedFile,
                   error, logs, ffmpegRef, loads, objectURLs, loadsDone,
                   convertCalls>>

Next ==
    \/ loadFFmpeg
    \/ \E i \in 1..Len(loads) : loadFFmpegImported(i)
    \/ \E i \in 1..Len(loads) : loadFFmpegResolved(i)
    \/ \E i \in 1..Len(loads), m \in ErrorMessages : loadFFmpegRejected(i, m)
    \/ \E f \in Files \cup {Null} : handleFileSelect(f)
    \/ \E v \in Formats : setOutputFormat(v)
    \/ resetConverter
    \/ convertVideo
    \/ \E j \in 1..Len(jobs) : convertVideoWritten(j)
    \/ \E j \in 1..Len(jobs) : convertVideoExecuted(j)
    \/ \E j \in 1..Len(jobs) : convertVideoRead(j)
    \/ \E j \in 1..Len(jobs), m \in ErrorMessages : convertVideoRejected(j, m)
    \/ \E j \in 1..Len(jobs), m \in EngineMessages : onLog(j, m)
    \/ \E j \in 1..Len(jobs), r \in Ratios : onProgress(j, r)

Spec == Init /\ [][Next]_vars

\* The continuation of a suspended convertVideo: the awaited call resolves
\* or rejects.
JobStep ==
    \E j \in 1..Len(jobs) :
        \/ convertVideoWritten(j)
        \/ convertVideoExecuted(j)
        \/ convertVideoRead(j)
        \/ \E m \in ErrorMessages : convertVideoRejected(j, m)

\* Every awaited engine call of a job eventually returns or throws, and the
\* event loop then runs the continuation.
\* Next with the conversions of a session bounded by MaxLiveConverts.
FairNext ==
    \/ loadFFmpeg
    \/ \E i \in 1..Len(loads) : loadFFmpegImported(i)
    \/ \E i \in 1..Len(loads) : loadFFmpegResolved(i)
    \/ \E i \in 1..Len(loads), m \in ErrorMessages : loadFFmpegRejected(i, m)
    \/ \E f \in Files \cup {Null} : handleFileSelect(f)
    \/ \E v \in Formats : setOutputFormat(v)
    \/ resetConverter
    \/ convertVideo /\ convertCalls' <= MaxLiveConverts
    \/ \E j \in 1..Len(jobs) : convertVideoWritten(j)
    \/ \E j \in 1..Len(jobs) : convertVideoExecuted(j)
    \/ \E j \in 1..Len(jobs) : convertVideoRead(j)
    \/ \E j \in 1..Len(jobs), m \in ErrorMessages : convertVideoRejected(j, m)
    \/ \E j \in 1..Len(jobs), m \in EngineMessages : onLog(j, m)
    \/ \E j \in 1..Len(jobs), r \in Ratios : onProgress(j, r)

FairSpec == Init /\ [][FairNext]_vars /\ WF_vars(JobStep)

(***************************************************************************)
(* Properties                                                              *)
(***************************************************************************)

\* C1: at most one conversion is in flight in every reachable state, and
\* while one is in flight the in-flight flag is set, which disables the
\* Convert button, so that no further convert request can be issued --
\* also after a reset or a new file selection made during the conversion.
C1_SingleConversionInFlight ==
    /\ Len(jobs) <= 1
    /\ jobs # <<>> => isLoading

\* A conversion is in flight and another file has been selected meanwhile.
C1_Witness ==
    /\ Len(jobs) = 1
    /\ file # Null
    /\ file # jobs[1].file
    /\ isLoading

\* C2: a step in which an awaited call of a job rejects ends in a state
\* with no Converted Artifact, whatever the state the job was started from.
C2_FailedJobLeavesNoArtifact ==
    [][(\E j \in 1..Len(jobs), m \in ErrorMessages : convertVideoRejected(j, m))
          => convertedFile' = Null]_vars

\* C3: the number of object URLs created and not released never exceeds
\* one.
C3_AtMostOneLiveHandle == Cardinality(objectURLs) <= 1

\* C4: every file-selection event with a non-empty selection ends in a
\* state with no artifact, an empty error message and progress 0.
C4_SelectClearsJobState ==
    [][\A f \in Files :
          handleFileSelect(f)
            => (convertedFile' = Null /\ error' = "" /\ progress' = 0)]_vars

\* A file is selected with nothing left of an earlier conversion, whose
\* object URL shows that there was one.
C4_Witness ==
    /\ file # Null
    /\ objectURLs # {}
    /\ convertedFile = Null
    /\ error = ""
    /\ progress = 0
    /\ logs = <<>>

\* C5: a reset made while an artifact is shown ends in a state where the
\* file, the artifact, the error message and the log are empty and progress
\* is 0, with engine readiness and the selected format unchanged.
C5_ResetClearsJobState ==
    [][(resetConverter /\ convertedFile # Null)
          => /\ file' = Null
             /\ convertedFile' = Null
             /\ error' = ""
             /\ logs' = <<>>
             /\ progress' = 0
             /\ isFFmpegLoaded' = isFFmpegLoaded
             /\ outputFormat' = outputFormat]_vars

\* Idle after a reset that followed a conversion to a format other than
\* the initial one.
C5_Witness ==
    /\ file = Null
    /\ objectURLs # {}
    /\ convertedFile = Null
    /\ error = ""
    /\ logs = <<>>
    /\ progress = 0
    /\ isFFmpegLoaded
    /\ outputFormat = "webm"
    /\ jobs = <<>>

\* C6: while a conversion is in flight the progress indicator stays within
\* [0, 100] and never decreases.
C6_ProgressMonotoneBounded ==
    [][(jobs # <<>> /\ jobs' # <<>>)
          => (progress <= progress' /\ 0 <= progress' /\ progress' <= 100)]_vars

\* C7: no step leaves more than one engine initialization in flight or
\* more than one succeeded; no step starts one while one is in flight; and
\* once the engine is loaded no step starts or completes another.
C7_SingleEngineInitialization ==
    [][/\ Len(loads') <= 1
       /\ loadsDone' <= 1
       /\ loads # <<>> => Len(loads') <= Len(loads)
       /\ isFFmpegLoaded => (loads' = <<>> /\ loadsDone' = loadsDone)]_vars

\* The engine is loaded by a second load request, made after a failed one.
C7_Witness ==
    /\ isFFmpegLoaded
    /\ LoadAttempts = 2
    /\ loadsDone = 1

\* C8: a rejected load records an error and leaves the engine not loaded
\* and the loading flag cleared; and no step taken while the engine is not
\* loaded starts a conversion.
C8_LoadFailureStaysPreReady ==
    [][/\ (\E i \in 1..Len(loads), m \in ErrorMessages : loadFFmpegRejected(i, m))
          => (error' # "" /\ ~isFFmpegLoaded' /\ ~isLoading')
       /\ ~isFFmpegLoaded => (jobs' = <<>> /\ convertCalls' = convertCalls)]_vars

\* A load has failed: its error is shown and the engine is not loaded.
C8_Witness ==
    /\ error # ""
    /\ ~isFFmpegLoaded
    /\ ~isLoading
    /\ loads = <<>>
    /\ LoadAttempts >= 1

RECURSIVE JoinDots(_)
\* The segments of a file name joined by "." again.
JoinDots(segments) ==
    IF Len(segments) = 1 THEN segments[1]
    ELSE segments[1] \o "." \o JoinDots(Tail(segments))

\* The base name of a file: its name without the last extension.
BaseName(f) ==
    IF Len(f.name) = 1 THEN f.name[1]
    ELSE JoinDots(SubSeq(f.name, 1, Len(f.name) - 1))

\* C9: an artifact converted from file f to format t has the media type
\* video/t and the name made of f's base name and the extension .t
C9_ArtifactTypeAndName ==
    convertedFile # Null =>
        LET f == convertedFile.blob.data.from
            t == convertedFile.blob.data.format
        IN  /\ convertedFile.blob.type = "video/" \o t
            /\ convertedFile.name = BaseName(f) \o "." \o t

\* Number of positions of sequence s that hold x.
Count(s, x) == Cardinality({k \in 1..Len(s) : s[k] = x})

\* C10: the argument list passed to ffmpeg.exec starts with -i and the
\* input handle, holds each of -c:v, -c:a and -preset at most once, and
\* holds the output handle exactly once, as its last token.
C10_CommandShape ==
    \A j \in 1..Len(jobs) :
        jobs[j].pc = "exec" =>
            LET c == jobs[j].command
                out == OutputName(jobs[j].outputFormat)
            IN  /\ Len(c) >= 3
                /\ c[1] = "-i"
                /\ c[2] = InputName(jobs[j].file)
                /\ Count(c, "-c:v") <= 1
                /\ Count(c, "-c:a") <= 1
                /\ Count(c, "-preset") <= 1
                /\ Count(c, out) = 1
                /\ c[Len(c)] = out

\* The codec pair the Format Policy assigns to a format.
CodecPair(format) ==
    CASE format = "webm" -> [video |-> "libvpx-vp9", audio |-> "libopus"]
      [] format = "avi"  -> [video |-> "libx264", audio |-> "mp3"]
      [] OTHER           -> [video |-> "libx264", audio |-> "aac"]

\* The values that follow the flag in the argument list c.
FlagValues(c, flag) == {c[k + 1] : k \in {n \in 1..(Len(c) - 1) : c[n] = flag}}

\* C11: the argument list passed to ffmpeg.exec for a format names exactly
\* one video codec and one audio codec, those of the format's codec pair.
C11_OneCodecPairPerFormat ==
    \A j \in 1..Len(jobs) :
        jobs[j].pc = "exec" =>
            /\ FlagValues(jobs[j].command, "-c:v")
                 = {CodecPair(jobs[j].outputFormat).video}
            /\ FlagValues(jobs[j].command, "-c:a")
                 = {CodecPair(jobs[j].outputFormat).audio}

\* The messages that report a failed engine load.
LoadFailureMessages == {"Failed to load FFmpeg: " \o m : m \in ErrorMessages}
LoadFailureLogLines == {"Error loading FFmpeg: " \o m : m \in ErrorMessages}

\* C12: a step in which an awaited call of a job rejects records an error
\* message and a log line that are not those of a failed engine load.
C12_ConversionErrorDistinct ==
    [][(\E j \in 1..Len(jobs), m \in ErrorMessages : convertVideoRejected(j, m))
          => /\ error' \notin LoadFailureMessages
             /\ logs'[Len(logs')] \notin LoadFailureLogLines]_vars

\* C13: no step makes a loaded engine not loaded or replaces its instance,
\* and a step in which a job fails ends with the engine loaded and no
\* operation in flight.
C13_EngineNeverTornDown ==
    [][/\ isFFmpegLoaded => (isFFmpegLoaded' /\ ffmpegRef' = ffmpegRef)
       /\ (\E j \in 1..Len(jobs), m \in ErrorMessages : convertVideoRejected(j, m))
            => (isFFmpegLoaded' /\ ~isLoading' /\ jobs' = <<>> /\ loads' = <<>>)]_vars

\* Ready after a failed conversion: the error of the failed job is shown, the
\* engine is loaded and nothing is in flight.
C13_Witness ==
    /\ convertCalls >= 1
    /\ error # ""
    /\ isFFmpegLoaded
    /\ ~isLoading
    /\ jobs = <<>>
    /\ file # Null

\* C15: a job awaits exec only after its write, awaits the read-back only
\* after its exec, the artifact is installed only by the step that ends the
\* read-back, and the step in which a call rejects ends the job without
\* installing an artifact or creating a handle.
C15_EngineStepsInSequence ==
    [][/\ jobs' # <<>> =>
            /\ jobs'[1].pc = "write" => (jobs = <<>> \/ jobs[1].pc = "write")
            /\ jobs'[1].pc = "exec" => (jobs # <<>> /\ jobs[1].pc \in {"write", "exec"})
            /\ jobs'[1].pc = "read" => (jobs # <<>> /\ jobs[1].pc \in {"exec", "read"})
       /\ (convertedFile' # Null /\ convertedFile' # convertedFile)
            => (jobs # <<>> /\ jobs[1].pc = "read" /\ jobs' = <<>>)
       /\ (\E j \in 1..Len(jobs), m \in ErrorMessages : convertVideoRejected(j, m))
            => (jobs' = RemoveAt(jobs, 1) /\ convertedFile' = convertedFile
                /\ objectURLs' = objectURLs)]_vars

\* A job is at its read-back, after its write and exec (the engine has
\* logged and reported progress), with no artifact installed yet.
C15_Witness ==
    /\ Len(jobs) = 1
    /\ jobs[1].pc = "read"
    /\ jobs[1].command # <<>>
    /\ jobs[1].nlogs >= 1
    /\ jobs[1].ratio > 0
    /\ convertedFile = Null

\* C16: the log never holds more than 11 lines.
C16_LogAtMostEleven == Len(logs) <= 11

\* C17: an artifact exists only while a source file is selected, and was
\* produced from that file.
C17_ArtifactOfSelectedFile ==
    convertedFile # Null =>
        (file # Null /\ convertedFile.blob.data.from = file)

\* C18: the step that marks the engine loaded ends with an empty error
\* message, and while the engine is loaded an empty error message becomes
\* non-empty only by the failure of a conversion.
C18_NoLoadErrorOnceLoaded ==
    [][/\ (~isFFmpegLoaded /\ isFFmpegLoaded') => error' = ""
       /\ (isFFmpegLoaded /\ error = "" /\ error' # "")
            => (\E j \in 1..Len(jobs), m \in ErrorMessages :
                    convertVideoRejected(j, m))]_vars

\* C14, as stated: every conversion in flight eventually ends, and the step
\* that ends it leaves an artifact or an error, the in-flight flag cleared,
\* progress at 0 and the Convert button available.
C14_JobEndsConvertAvailable ==
    /\ (jobs # <<>>) ~> (jobs = <<>>)
    /\ [][(jobs # <<>> /\ jobs' = <<>>)
            => /\ convertedFile' # Null \/ error' # ""
               /\ ~isLoading'
               /\ progress' = 0
               /\ ConvertButtonEnabled']_vars

\* C14, amended: every conversion in flight eventually ends, and the step
\* that ends it leaves an artifact or an error, the in-flight flag cleared
\* and progress at 0; the Convert button is available again if a source
\* file is selected at that point.
C14_JobEventuallyEnds ==
    /\ (jobs # <<>>) ~> (jobs = <<>>)
    /\ [][(jobs # <<>> /\ jobs' = <<>>)
            => /\ convertedFile' # Null \/ error' # ""
               /\ ~isLoading'
               /\ progress' = 0
               /\ file' # Null => ConvertButtonEnabled']_vars

\* A conversion has ended in success with its file still selected:
\* the artifact is shown and the Convert button is available.
C14_Witness ==
    /\ convertCalls >= 1
    /\ jobs = <<>>
    /\ convertedFile # Null
    /\ error = ""
    /\ ~isLoading
    /\ progress = 0
    /\ ConvertButtonEnabled
====
